---- MODULE Spec2Model ----
(***************************************************************************)
(* uq (lostutils): a streaming line de-duplication filter.                 *)
(*                                                                         *)
(* The model follows src/src/main.rs: the three UniqueSet implementations  *)
(* (FxHashSet, UniqueWithCap, UniqueWithOverride), the two LineFilter      *)
(* implementations (IncludeFilter, ExcludeFilter) and the driver loop of   *)
(* main.  Lines are byte sequences, written here as tuples of one-char     *)
(* strings; the line terminator that read_until keeps at the end of a line *)
(* is not written out (no character class of the patterns below contains   *)
(* it).                                                                    *)
(***************************************************************************)
EXTENDS Integers, Sequences, FiniteSets, TLC

\* Longest input stream (number of lines on stdin).
MaxLen == 3
\* Largest value given to --capacity.
MaxCap == 2

\* The lines the input stream is drawn from (next_line never yields an empty one).
Lines ==
  { <<"a">>, <<"1">>, <<"a", "1">>, <<"1", "a">>, <<"b", "1", "1">>, <<"a", "b", "1">> }

VARIABLES matches, stdin, pos, pc, unique_filter, filter, stdout, result, decisions

vars == <<matches, stdin, pos, pc, unique_filter, filter, stdout, result, decisions>>

None == [some |-> FALSE, val |-> <<>>]
Some(v) == [some |-> TRUE, val |-> v]

(***************************************************************************)
(* regex::bytes::Regex, for the patterns used here.  A compiled pattern is *)
(* an alternation of atom sequences; an atom is a character class, taken   *)
(* once or one-or-more times (greedy), and is explicit capturing group grp *)
(* when grp > 0.  Matching is leftmost-first with backtracking.            *)
(***************************************************************************)
Atom(cls, plus, grp) == [cls |-> cls, plus |-> plus, grp |-> grp]

\* The patterns given to --include / --exclude.
Patterns == { "1+", "(a)|1", "(a)b(1+)", "(" }

\* Regex::new: Ok(re) or Err.
RegexNew(regex) ==
  CASE regex = "1+" ->
         [ok |-> TRUE, ngroups |-> 0,
          alts |-> << << Atom({"1"}, TRUE, 0) >> >>]
    [] regex = "(a)|1" ->
         [ok |-> TRUE, ngroups |-> 1,
          alts |-> << << Atom({"a"}, FALSE, 1) >>, << Atom({"1"}, FALSE, 0) >> >>]
    [] regex = "(a)b(1+)" ->
         [ok |-> TRUE, ngroups |-> 2,
          alts |-> << << Atom({"a"}, FALSE, 1), Atom({"b"}, FALSE, 0),
                         Atom({"1"}, TRUE, 2) >> >>]
    [] OTHER -> [ok |-> FALSE, ngroups |-> 0, alts |-> <<>>]

\* Number of consecutive bytes of line, from index i on, that are in cls.
RECURSIVE RunLen(_, _, _)
RunLen(line, i, cls) ==
  IF i <= Len(line) /\ line[i] \in cls THEN 1 + RunLen(line, i + 1, cls) ELSE 0

\* The most bytes an atom can take at index i.
MaxRun(a, line, i) ==
  IF a.plus THEN RunLen(line, i, a.cls)
  ELSE IF i <= Len(line) /\ line[i] \in a.cls THEN 1 ELSE 0

NoEnds == [ok |-> FALSE, ends |-> <<>>]

\* The first atom ends at e and the rest matched as rest did, or else alt.
EndsOr(rest, e, alt) ==
  IF rest.ok THEN [ok |-> TRUE, ends |-> <<e>> \o rest.ends] ELSE alt

\* Match the atoms in sequence starting at index i: the end index (exclusive) of
\* each atom.  TryRuns gives the first atom n bytes, the longest run first, and
\* backtracks to a shorter one when the rest does not match after it.
RECURSIVE MatchAtoms(_, _, _)
RECURSIVE TryRuns(_, _, _, _)
TryRuns(atoms, line, i, n) ==
  IF n = 0 THEN NoEnds
  ELSE EndsOr(MatchAtoms(Tail(atoms), line, i + n), i + n,
              TryRuns(atoms, line, i, n - 1))

MatchAtoms(atoms, line, i) ==
  IF atoms = <<>> THEN [ok |-> TRUE, ends |-> <<>>]
  ELSE TryRuns(atoms, line, i, MaxRun(Head(atoms), line, i))

\* The first alternative, from the k-th on in pattern order, that matches at
\* index i (0: none).
RECURSIVE AltFrom(_, _, _, _)
AltFrom(re, line, i, k) ==
  IF k > Len(re.alts) THEN 0
  ELSE IF MatchAtoms(re.alts[k], line, i).ok THEN k
  ELSE AltFrom(re, line, i, k + 1)

AltAt(re, line, i) == AltFrom(re, line, i, 1)

NoMatch == [ok |-> FALSE, start |-> 0, end |-> 0, alt |-> 0, ends |-> <<>>]

\* The match of alternative k at index i, whose atoms end at m.ends.
MatchOf(i, k, m) ==
  [ok |-> TRUE, start |-> i, end |-> m.ends[Len(m.ends)], alt |-> k, ends |-> m.ends]

\* The leftmost match starting at index p or later.
RECURSIVE FindAt(_, _, _)
FoundAt(re, line, p, k) ==
  IF k = 0 THEN FindAt(re, line, p + 1)
  ELSE MatchOf(p, k, MatchAtoms(re.alts[k], line, p))

FindAt(re, line, p) ==
  IF p > Len(line) THEN NoMatch ELSE FoundAt(re, line, p, AltAt(re, line, p))

\* The atom of the matched alternative that is group g (0: the group is in
\* another alternative).
AtomOf(atoms, g) ==
  IF \E j \in 1..Len(atoms) : atoms[j].grp = g
  THEN CHOOSE j \in 1..Len(atoms) : atoms[j].grp = g
  ELSE 0

\* Group g of match m: the whole match for g = 0, the bytes of its atom for a
\* group that took part, None for one that did not.
Group(atoms, line, m, g, j) ==
  IF g = 0 THEN Some(SubSeq(line, m.start, m.end - 1))
  ELSE IF j = 0 THEN None
  ELSE Some(SubSeq(line, IF j = 1 THEN m.start ELSE m.ends[j - 1], m.ends[j] - 1))

CapturesOf(re, line, m) ==
  IF ~m.ok THEN None
  ELSE Some([n \in 1..(re.ngroups + 1) |->
               Group(re.alts[m.alt], line, m, n - 1, AtomOf(re.alts[m.alt], n - 1))])

\* Regex::captures: None, or the groups 0..ngroups of the leftmost match, each
\* Some(bytes) when it took part in the match and None when it did not.
Captures(re, line) == CapturesOf(re, line, FindAt(re, line, 1))

\* Regex::replace_all with the empty replacement, from index p on.
RECURSIVE ReplaceAllFrom(_, _, _)
Splice(re, line, p, m) ==
  IF ~m.ok THEN SubSeq(line, p, Len(line))
  ELSE SubSeq(line, p, m.start - 1) \o ReplaceAllFrom(re, line, m.end)

ReplaceAllFrom(re, line, p) == Splice(re, line, p, FindAt(re, line, p))

ReplaceAll(re, line) == ReplaceAllFrom(re, line, 1)

(***************************************************************************)
(* The line filters.                                                       *)
(***************************************************************************)
\* IncludeFilter::new / ExcludeFilter::new: Ok(filter) or
\* Err(UqError::InvalidRegex { regex }).
IncludeFilterNew(regex) ==
  IF RegexNew(regex).ok
  THEN [ok |-> TRUE, filter |-> [kind |-> "Include", re |-> RegexNew(regex)], regex |-> ""]
  ELSE [ok |-> FALSE, filter |-> [kind |-> "None", re |-> RegexNew(regex)], regex |-> regex]

ExcludeFilterNew(regex) ==
  IF RegexNew(regex).ok
  THEN [ok |-> TRUE, filter |-> [kind |-> "Exclude", re |-> RegexNew(regex)], regex |-> ""]
  ELSE [ok |-> FALSE, filter |-> [kind |-> "None", re |-> RegexNew(regex)], regex |-> regex]

\* The concatenation of the groups that took part in the match.
RECURSIVE ConcatSome(_)
ConcatSome(groups) ==
  IF groups = <<>> THEN <<>>
  ELSE (IF Head(groups).some THEN Head(groups).val ELSE <<>>) \o ConcatSome(Tail(groups))

\* KeyOfCaptures with the whole match never dropped.
KeyOfCaptures_all(captures) ==
  IF captures.some THEN Some(ConcatSome(captures.val)) ELSE None

\* The key made of the captures: the whole match when it is the only group,
\* the explicit groups otherwise.
KeyOfCaptures(captures) ==
  IF captures.some
  THEN Some(ConcatSome(IF Len(captures.val) = 1 THEN captures.val
                       ELSE Tail(captures.val)))
  ELSE None

\* IncludeFilter::filter
IncludeFilter_filter(re, line) == KeyOfCaptures(Captures(re, line))

\* The line with match m alone cut out.
CutOne(line, m) ==
  IF ~m.ok THEN line
  ELSE SubSeq(line, 1, m.start - 1) \o SubSeq(line, m.end, Len(line))

\* ExcludeFilter_filter removing the first match only (replace for replace_all).
ExcludeFilter_filter_first(re, line) == Some(CutOne(line, FindAt(re, line, 1)))

\* ExcludeFilter::filter
ExcludeFilter_filter(re, line) == Some(ReplaceAll(re, line))

\* LineFilter::apply
Apply(f, line) ==
  IF f.kind = "Include" THEN IncludeFilter_filter(f.re, line)
  ELSE ExcludeFilter_filter(f.re, line)

(***************************************************************************)
(* The unique sets.  insert gives the set after the call and what the call *)
(* did: "true", "false", or "panic" when it did not return.                *)
(***************************************************************************)
Cache(kind, set, queue, cap) == [kind |-> kind, set |-> set, queue |-> queue, cap |-> cap]

\* FxHashSet::default()
FxHashSetNew == Cache("FxHashSet", {}, <<>>, 0)
\* UniqueWithCap::new
UniqueWithCapNew(cap) == Cache("UniqueWithCap", {}, <<>>, cap)
\* UniqueWithOverride::new
UniqueWithOverrideNew(cap) == Cache("UniqueWithOverride", {}, <<>>, cap)

\* FxHashSetInsert with the value not stored.
FxHashSetInsert_forgets(c, value) ==
  [cache |-> c, ret |-> IF value \in c.set THEN "false" ELSE "true"]

\* impl UniqueSet for FxHashSet
FxHashSetInsert(c, value) ==
  [cache |-> [c EXCEPT !.set = @ \cup {value}],
   ret |-> IF value \in c.set THEN "false" ELSE "true"]

\* UniqueWithCapInsert with the capacity test off by one (>= for >).
UniqueWithCapInsert_ge(c, value) ==
  IF value \notin c.set
  THEN LET lines == c.set \cup {value}
       IN [cache |-> [c EXCEPT !.set = lines],
           ret |-> IF Cardinality(lines) >= c.cap THEN "panic" ELSE "true"]
  ELSE [cache |-> c, ret |-> "false"]

\* UniqueWithCapInsert testing the capacity before the insert, so that a key
\* already held counts too.
UniqueWithCapInsert_precheck(c, value) ==
  IF Cardinality(c.set) >= c.cap
  THEN [cache |-> c, ret |-> "panic"]
  ELSE [cache |-> [c EXCEPT !.set = @ \cup {value}],
        ret |-> IF value \in c.set THEN "false" ELSE "true"]

\* impl UniqueSet for UniqueWithCap
UniqueWithCapInsert(c, value) ==
  IF value \notin c.set
  THEN LET lines == c.set \cup {value}
       IN [cache |-> [c EXCEPT !.set = lines],
           ret |-> IF Cardinality(lines) > c.cap THEN "panic" ELSE "true"]
  ELSE [cache |-> c, ret |-> "false"]

\* UniqueWithOverrideInsert evicting one insert too late (len > cap + 1).
UniqueWithOverrideInsert_late(c, value) ==
  IF value \notin c.set
  THEN LET set == c.set \cup {value}
       IN IF Cardinality(set) > c.cap + 1
          THEN IF c.queue = <<>>
               THEN [cache |-> [c EXCEPT !.set = set], ret |-> "panic"]
               ELSE [cache |-> [c EXCEPT !.set = set \ {Head(c.queue)},
                                         !.queue = Append(Tail(c.queue), value)],
                     ret |-> "true"]
          ELSE [cache |-> [c EXCEPT !.set = set, !.queue = Append(c.queue, value)],
                ret |-> "true"]
  ELSE [cache |-> c, ret |-> "false"]

\* UniqueWithOverrideInsert reading the oldest key without taking it off the
\* queue (front for pop_front).
UniqueWithOverrideInsert_nopop(c, value) ==
  IF value \notin c.set
  THEN LET set == c.set \cup {value}
       IN IF Cardinality(set) > c.cap
          THEN IF c.queue = <<>>
               THEN [cache |-> [c EXCEPT !.set = set], ret |-> "panic"]
               ELSE [cache |-> [c EXCEPT !.set = set \ {Head(c.queue)},
                                         !.queue = Append(c.queue, value)],
                     ret |-> "true"]
          ELSE [cache |-> [c EXCEPT !.set = set, !.queue = Append(c.queue, value)],
                ret |-> "true"]
  ELSE [cache |-> c, ret |-> "false"]

\* UniqueWithOverrideInsert moving a key that is held to the back of the queue
\* (least recently used for first in, first out).
UniqueWithOverrideInsert_lru(c, value) ==
  IF value \notin c.set
  THEN LET set == c.set \cup {value}
       IN IF Cardinality(set) > c.cap
          THEN IF c.queue = <<>>
               THEN [cache |-> [c EXCEPT !.set = set], ret |-> "panic"]
               ELSE [cache |-> [c EXCEPT !.set = set \ {Head(c.queue)},
                                         !.queue = Append(Tail(c.queue), value)],
                     ret |-> "true"]
          ELSE [cache |-> [c EXCEPT !.set = set, !.queue = Append(c.queue, value)],
                ret |-> "true"]
  ELSE [cache |-> [c EXCEPT !.queue = Append(SelectSeq(@, LAMBDA k : k # value), value)],
        ret |-> "false"]

\* impl UniqueSet for UniqueWithOverride
UniqueWithOverrideInsert(c, value) ==
  IF value \notin c.set
  THEN LET set == c.set \cup {value}
       IN IF Cardinality(set) > c.cap
          THEN IF c.queue = <<>>
               \* pop_front() is None and unwrap() panics
               THEN [cache |-> [c EXCEPT !.set = set], ret |-> "panic"]
               ELSE [cache |-> [c EXCEPT !.set = set \ {Head(c.queue)},
                                         !.queue = Append(Tail(c.queue), value)],
                     ret |-> "true"]
          ELSE [cache |-> [c EXCEPT !.set = set, !.queue = Append(c.queue, value)],
                ret |-> "true"]
  ELSE [cache |-> c, ret |-> "false"]

\* unique_filter.insert, dispatched on the boxed implementation
Insert(c, value) ==
  CASE c.kind = "UniqueWithCap" -> UniqueWithCapInsert(c, value)
    [] c.kind = "UniqueWithOverride" -> UniqueWithOverrideInsert(c, value)
    [] OTHER -> FxHashSetInsert(c, value)

(***************************************************************************)
(* main                                                                    *)
(***************************************************************************)
Digits == <<"0", "1", "2", "3", "4", "5", "6", "7", "8", "9">>

IsDigit(ch) == \E n \in 1..Len(Digits) : Digits[n] = ch

DigitVal(ch) == (CHOOSE n \in 1..Len(Digits) : Digits[n] = ch) - 1

RECURSIVE DecimalVal(_)
DecimalVal(s) ==
  IF s = <<>> THEN 0
  ELSE DecimalVal(SubSeq(s, 1, Len(s) - 1)) * Len(Digits) + DigitVal(s[Len(s)])

\* str::parse::<usize>: an optional '+', then one or more decimal digits (the
\* values used here are far below usize::MAX).
ParseUsize(s) ==
  LET body == IF s # <<>> /\ Head(s) = "+" THEN Tail(s) ELSE s
  IN IF body # <<>> /\ \A i \in 1..Len(body) : IsDigit(body[i])
     THEN Some(DecimalVal(body))
     ELSE [some |-> FALSE, val |-> 0]

\* The values given to --capacity.
CapacityArgs == { <<Digits[n + 1]>> : n \in 0..MaxCap } \cup { <<"-", "1">> }

\* What clap accepts: --override requires --capacity, --exclude conflicts with
\* --include.
Matches ==
  { m \in [capacity : {None} \cup {Some(s) : s \in CapacityArgs},
           override : BOOLEAN,
           include : {[some |-> FALSE, val |-> ""]} \cup {Some(p) : p \in Patterns},
           exclude : {[some |-> FALSE, val |-> ""]} \cup {Some(p) : p \in Patterns}] :
      /\ m.override => m.capacity.some
      /\ ~(m.include.some /\ m.exclude.some) }

\* The input streams: up to MaxLen lines.
Inputs == UNION { [1..n -> Lines] : n \in 0..MaxLen }

NoFilter == [kind |-> "None", re |-> RegexNew("")]

Running == [kind |-> "running", regex |-> ""]

Init ==
  /\ matches \in Matches
  /\ stdin \in Inputs
  /\ pos = 0
  /\ pc = "start"
  /\ unique_filter = Cache("unset", {}, <<>>, 0)
  /\ filter = NoFilter
  /\ stdout = <<>>
  /\ result = Running
  /\ decisions = <<>>

\* Capacity with a value that does not parse taken as 0.
Capacity_or_zero(m) ==
  IF m.capacity.some
  THEN (IF ParseUsize(m.capacity.val).some THEN ParseUsize(m.capacity.val) ELSE Some(0))
  ELSE [some |-> FALSE, val |-> 0]

\* let capacity = ...
Capacity(m) ==
  IF m.capacity.some THEN ParseUsize(m.capacity.val) ELSE [some |-> FALSE, val |-> 0]

\* let mut unique_filter = match (capacity, matches.is_present("override"))
NewUniqueFilter(m) ==
  LET capacity == Capacity(m)
  IN CASE capacity.some /\ m.override -> UniqueWithOverrideNew(capacity.val)
       [] capacity.some /\ ~m.override -> UniqueWithCapNew(capacity.val)
       [] OTHER -> FxHashSetNew

\* NewFilter going on without a filter when the pattern does not compile.
NewFilter_ignores_error(m) ==
  CASE m.include.some /\ IncludeFilterNew(m.include.val).ok -> IncludeFilterNew(m.include.val)
    [] m.exclude.some /\ ExcludeFilterNew(m.exclude.val).ok -> ExcludeFilterNew(m.exclude.val)
    [] OTHER -> [ok |-> TRUE, filter |-> NoFilter, regex |-> ""]

\* let filter = match (include, exclude)
NewFilter(m) ==
  CASE m.include.some -> IncludeFilterNew(m.include.val)
    [] m.exclude.some -> ExcludeFilterNew(m.exclude.val)
    [] OTHER -> [ok |-> TRUE, filter |-> NoFilter, regex |-> ""]

\* main up to the loop: the cache and the filter are built; a pattern that does
\* not compile returns Err(InvalidRegex) from main.
Construct ==
  /\ pc = "start"
  /\ unique_filter' = NewUniqueFilter(matches)
  /\ filter' = NewFilter(matches).filter
  /\ IF NewFilter(matches).ok
     THEN pc' = "loop" /\ result' = result
     ELSE pc' = "exit"
          /\ result' = [kind |-> "InvalidRegex", regex |-> NewFilter(matches).regex]
  /\ UNCHANGED <<matches, stdin, pos, stdout, decisions>>

\* Some(line) => unique_filter.insert(line.clone()), None => false
InsertKey(c, key) ==
  IF key.some THEN [key |-> key] @@ Insert(c, key.val)
  ELSE [key |-> None, cache |-> c, ret |-> "false"]

\* InsertKey with the line itself inserted when the filter gives no key.
InsertKeyOrLine(c, key, line) ==
  IF key.some THEN [key |-> key] @@ Insert(c, key.val)
  ELSE [key |-> None] @@ Insert(c, line)

\* IsUnique with a line the include pattern does not match inserted as it is.
IsUnique_nomatch_raw(f, c, line) ==
  IF f.kind = "None"
  THEN [key |-> Some(line)] @@ Insert(c, line)
  ELSE InsertKeyOrLine(c, Apply(f, line), line)

\* let is_unique = match &filter { ... }: the derived key (None when the include
\* pattern does not match) and the outcome of the insert.
IsUnique(f, c, line) ==
  IF f.kind = "None"
  THEN [key |-> Some(line)] @@ Insert(c, line)
  ELSE InsertKey(c, Apply(f, line))

\* Write with the line written whatever is_unique says.
Write_always(out, line, r) == IF r.ret # "panic" THEN Append(out, line) ELSE out

\* Write with the derived key written in place of the line.
Write_key(out, line, r) == IF r.ret = "true" THEN Append(out, r.key.val) ELSE out

\* Write with the line written before the capacity test ends the run.
Write_before_check(out, line, r) == IF r.ret # "false" THEN Append(out, line) ELSE out

\* if is_unique { output.write_all(line) }
Write(out, line, r) == IF r.ret = "true" THEN Append(out, line) ELSE out

\* The body of the loop for a line whose insert did r.
Body(line, r) ==
  /\ pos' = pos + 1
  /\ unique_filter' = r.cache
  /\ decisions' = Append(decisions, [key |-> r.key, ret |-> r.ret])
  /\ stdout' = Write(stdout, line, r)
  /\ IF r.ret = "panic"
     THEN pc' = "exit" /\ result' = [kind |-> "panic", regex |-> ""]
     ELSE pc' = pc /\ result' = result

\* One iteration of the loop: next_line gave a line.
Step ==
  /\ pc = "loop"
  /\ pos < Len(stdin)
  /\ Body(stdin[pos + 1], IsUnique(filter, unique_filter, stdin[pos + 1]))
  /\ UNCHANGED <<matches, stdin, filter>>

\* next_line gave None: the loop ends and main returns Ok(()).
Eof ==
  /\ pc = "loop"
  /\ pos = Len(stdin)
  /\ pc' = "exit"
  /\ result' = [kind |-> "Ok", regex |-> ""]
  /\ UNCHANGED <<matches, stdin, pos, unique_filter, filter, stdout, decisions>>

Next == Construct \/ Step \/ Eof

Spec == Init /\ [][Next]_vars

(***************************************************************************)
(* Properties                                                              *)
(***************************************************************************)
\* The lines of s at the indices in I, up to index n, in order.
RECURSIVE SubSeqAt(_, _, _)
SubSeqAt(s, I, n) ==
  IF n = 0 THEN <<>>
  ELSE SubSeqAt(s, I, n - 1) \o (IF n \in I THEN <<s[n]>> ELSE <<>>)

\* The key of a line under the filter in force.
DerivedKey(line) ==
  CASE filter.kind = "Include" -> IncludeFilter_filter(filter.re, line)
    [] filter.kind = "Exclude" -> ExcludeFilter_filter(filter.re, line)
    [] OTHER -> Some(line)

\* Line i of the input has a key and no earlier line has the same key.
FirstOccurrence(i) ==
  /\ DerivedKey(stdin[i]).some
  /\ \A j \in 1..(i - 1) : DerivedKey(stdin[j]) # DerivedKey(stdin[i])

\* The keys passed to the cache before decision i.
KeysBefore(i) == { decisions[j].key.val : j \in {x \in 1..(i - 1) : decisions[x].key.some} }

\* C1: with no capacity bound the output is exactly the input lines whose key
\* occurs for the first time at that line, in input order.
C1_FirstOccurrences ==
  unique_filter.kind = "FxHashSet" =>
    stdout = SubSeqAt(stdin, {i \in 1..pos : FirstOccurrence(i)}, pos)

C1_Witness ==
  /\ unique_filter.kind = "FxHashSet"
  /\ result.kind = "Ok"
  /\ Len(stdout) >= 2
  /\ Len(stdout) < Len(stdin)

\* C2: with capacity C and no override, an insert panics exactly when it admits
\* the (C+1)-th distinct key; a key already held gives false and never panics.
C2_CapBoundary ==
  unique_filter.kind = "UniqueWithCap" =>
    \A i \in 1..Len(decisions) :
      decisions[i].key.some =>
        LET k == decisions[i].key.val
            seen == KeysBefore(i)
        IN /\ Cardinality(seen) <= unique_filter.cap
           /\ k \in seen => decisions[i].ret = "false"
           /\ (k \notin seen /\ Cardinality(seen) < unique_filter.cap)
                => decisions[i].ret = "true"
           /\ (k \notin seen /\ Cardinality(seen) = unique_filter.cap)
                => decisions[i].ret = "panic"

C2_Witness ==
  /\ unique_filter.kind = "UniqueWithCap"
  /\ unique_filter.cap >= 1
  /\ \E i, j \in 1..Len(decisions) :
       i < j /\ decisions[i].ret = "false" /\ decisions[j].ret = "panic"

\* C3: when the capacity panic ends the run, the line that caused it is the last
\* one read, it is not written, nothing further can happen, and the output is
\* the lines forwarded before it.
C3_StopsAtPanic ==
  (unique_filter.kind = "UniqueWithCap" /\ result.kind = "panic") =>
    /\ pc = "exit"
    /\ ~ENABLED Next
    /\ pos >= 1
    /\ decisions[pos].ret = "panic"
    /\ stdout = SubSeqAt(stdin, {i \in 1..(pos - 1) : FirstOccurrence(i)}, pos - 1)

C3_Witness ==
  /\ unique_filter.kind = "UniqueWithCap"
  /\ result.kind = "panic"
  /\ Len(stdout) >= 1
  /\ pos < Len(stdin)

\* The first n decisions are on n pairwise distinct keys.
DistinctRun(n) ==
  /\ \A i \in 1..n : decisions[i].key.some
  /\ \A i, j \in 1..n : i # j => decisions[i].key # decisions[j].key

\* C4: with capacity C and override, after n > C pairwise distinct keys the set
\* holds exactly the last C of them, and inserting the first key again gives true.
C4_FifoWindow ==
  unique_filter.kind = "UniqueWithOverride" =>
    \A n \in 1..pos :
      (n > unique_filter.cap /\ DistinctRun(n)) =>
        /\ n = pos =>
             /\ result.kind # "panic"
             /\ unique_filter.set =
                  { decisions[i].key.val : i \in (n - unique_filter.cap + 1)..n }
        /\ (n + 1 = pos /\ decisions[pos].key = decisions[1].key) =>
             decisions[pos].ret = "true"

\* C5: with capacity 0 and override every insert gives true, every line is
\* written, nothing panics, and the set and the queue stay empty.
C5_PassThrough ==
  (unique_filter.kind = "UniqueWithOverride" /\ unique_filter.cap = 0) =>
    /\ result.kind # "panic"
    /\ \A i \in 1..Len(decisions) : decisions[i].key.some => decisions[i].ret = "true"
    /\ stdout = SubSeqAt(stdin, {i \in 1..pos : decisions[i].key.some}, pos)
    /\ unique_filter.set = {}
    /\ unique_filter.queue = <<>>

\* C6: with capacity C and override, after every insert that returned the set
\* holds at most C keys.
C6_AtMostCap ==
  (unique_filter.kind = "UniqueWithOverride" /\ result.kind # "panic") =>
    Cardinality(unique_filter.set) <= unique_filter.cap

C6_Witness ==
  /\ unique_filter.kind = "UniqueWithOverride"
  /\ unique_filter.cap >= 1
  /\ Cardinality({i \in 1..Len(decisions) : decisions[i].ret = "true"}) > unique_filter.cap
  /\ \E i \in 1..Len(decisions) : decisions[i].ret = "false"
  /\ result.kind # "panic"

\* The next line is one the include pattern does not match.
NoMatchNext ==
  /\ pc = "loop"
  /\ pos < Len(stdin)
  /\ filter.kind = "Include"
  /\ ~Captures(filter.re, stdin[pos + 1]).some

\* C7: in include mode a line the pattern does not match leaves the cache as it
\* is under every policy, cannot panic, and is not written.
C7_NoMatchSuppressed ==
  [][NoMatchNext =>
       /\ unique_filter' = unique_filter
       /\ stdout' = stdout
       /\ result' = result
       /\ pc' = pc]_vars

C7_Witness ==
  /\ filter.kind = "Include"
  /\ unique_filter.kind = "UniqueWithCap"
  /\ unique_filter.cap = 0
  /\ pos >= 2
  /\ \A i \in 1..pos : ~decisions[i].key.some
  /\ stdin[1] # stdin[2]
  /\ result.kind = "Ok"

\* C8: the output is the input lines themselves, one for each insert that gave
\* true and no other, in input order.
C8_OriginalLines ==
  stdout = SubSeqAt(stdin, {i \in 1..pos : decisions[i].ret = "true"}, pos)

C8_Witness ==
  /\ filter.kind # "None"
  /\ \E i \in 1..pos : decisions[i].ret = "true" /\ decisions[i].key.val # stdin[i]
  /\ \E i \in 1..pos : decisions[i].ret = "false"
  /\ Len(stdout) >= 1

\* The pattern given on the command line, if any.
GivenPattern ==
  IF matches.include.some THEN matches.include
  ELSE matches.exclude

\* C9: a pattern that does not compile ends main with InvalidRegex carrying the
\* pattern, before any line is read, and nothing is ever written.
C9_InvalidPatternFailsFast ==
  (GivenPattern.some /\ ~RegexNew(GivenPattern.val).ok) =>
    /\ pos = 0
    /\ stdout = <<>>
    /\ decisions = <<>>
    /\ pc # "loop"
    /\ pc = "exit" => result = [kind |-> "InvalidRegex", regex |-> GivenPattern.val]

C9_Witness ==
  /\ result.kind = "InvalidRegex"
  /\ result.regex = "("
  /\ pc = "exit"
  /\ Len(stdin) >= 1

\* C10: on the unbounded cache the same key twice in a row gives (r, false),
\* where r is true exactly when the key was not held before.
C10_TwiceInARow ==
  unique_filter.kind = "FxHashSet" =>
    \A i \in 1..(Len(decisions) - 1) :
      (decisions[i].key.some /\ decisions[i + 1].key = decisions[i].key) =>
        /\ decisions[i + 1].ret = "false"
        /\ decisions[i].ret = (IF decisions[i].key.val \in KeysBefore(i)
                               THEN "false" ELSE "true")

C10_Witness ==
  /\ unique_filter.kind = "FxHashSet"
  /\ Len(decisions) >= 3
  /\ decisions[1].key # decisions[2].key
  /\ decisions[2].key.some
  /\ decisions[3].key = decisions[2].key
  /\ decisions[2].ret = "true"
  /\ decisions[3].ret = "false"

\* The indices of line, from p on, that lie in one of the successive
\* non-overlapping matches of re.
RECURSIVE Covered(_, _, _)
Covered(re, line, p) ==
  LET m == FindAt(re, line, p)
  IN IF ~m.ok THEN {} ELSE (m.start..(m.end - 1)) \cup Covered(re, line, m.end)

\* The run of the same cache policy with no filter over the first n input lines.
RECURSIVE IdentityRun(_)
IdentityRun(n) ==
  IF n = 0 THEN [cache |-> NewUniqueFilter(matches), out |-> <<>>, panicked |-> FALSE]
  ELSE LET prev == IdentityRun(n - 1)
           r == IsUnique(NoFilter, prev.cache, stdin[n])
       IN IF prev.panicked THEN prev
          ELSE [cache |-> r.cache, out |-> Write(prev.out, stdin[n], r),
                panicked |-> r.ret = "panic"]

\* C11: in exclude mode every line has a key, the line without the bytes of its
\* matches; of two lines with the same key the later one is not forwarded (next
\* to each other under every policy, anywhere without override); and with a
\* pattern that matches in no input line the run is the run without a filter.
C11_ExcludeKey ==
  filter.kind = "Exclude" =>
    /\ \A i \in 1..pos :
         decisions[i].key =
           Some(SubSeqAt(stdin[i],
                         (1..Len(stdin[i])) \ Covered(filter.re, stdin[i], 1),
                         Len(stdin[i])))
    /\ \A i, j \in 1..pos :
         (i < j /\ decisions[i].key = decisions[j].key
            /\ (j = i + 1 \/ unique_filter.kind # "UniqueWithOverride"))
           => decisions[j].ret = "false"
    /\ (\A i \in 1..Len(stdin) : ~FindAt(filter.re, stdin[i], 1).ok) =>
         /\ stdout = IdentityRun(pos).out
         /\ unique_filter = IdentityRun(pos).cache
         /\ (result.kind = "panic") = IdentityRun(pos).panicked

C11_Witness ==
  /\ filter.kind = "Exclude"
  /\ pos >= 2
  /\ stdin[1] # stdin[2]
  /\ decisions[1].key = decisions[2].key
  /\ Cardinality(Covered(filter.re, stdin[1], 1)) >= 2
  /\ decisions[1].key.val # <<>>
  /\ stdout = <<stdin[1]>>

\* The keys whose insert gave true among the first n decisions, in order.
RECURSIVE AdmittedKeys(_)
AdmittedKeys(n) ==
  IF n = 0 THEN <<>>
  ELSE AdmittedKeys(n - 1)
       \o (IF decisions[n].ret = "true" THEN <<decisions[n].key.val>> ELSE <<>>)

\* The last n elements of s.
LastN(s, n) == SubSeq(s, Len(s) - n + 1, Len(s))

\* C12: with override, after every insert that returned, the queue holds the
\* keys of the set, each once, in the order they were admitted.
C12_QueueIsSet ==
  (unique_filter.kind = "UniqueWithOverride" /\ result.kind # "panic") =>
    /\ Len(unique_filter.queue) = Cardinality(unique_filter.set)
    /\ {unique_filter.queue[i] : i \in 1..Len(unique_filter.queue)} = unique_filter.set
    /\ Len(unique_filter.queue) <= Len(AdmittedKeys(pos))
    /\ unique_filter.queue = LastN(AdmittedKeys(pos), Len(unique_filter.queue))

C12_Witness ==
  /\ unique_filter.kind = "UniqueWithOverride"
  /\ result.kind # "panic"
  /\ Len(unique_filter.queue) >= 2
  /\ Len(AdmittedKeys(pos)) > Len(unique_filter.queue)

\* The next line has a key and the override cache is full.
FullNext ==
  /\ pc = "loop"
  /\ pos < Len(stdin)
  /\ unique_filter.kind = "UniqueWithOverride"
  /\ Cardinality(unique_filter.set) = unique_filter.cap
  /\ DerivedKey(stdin[pos + 1]).some

\* C13: with override, once the set holds C keys it holds C keys after every
\* later insert: an insert of a new key evicts the head of the queue and no
\* other key, an insert of a key that is held evicts nothing.
C13_SteadyState ==
  [][FullNext =>
       /\ result'.kind # "panic"
       /\ Cardinality(unique_filter'.set) = unique_filter.cap
       /\ IF DerivedKey(stdin[pos + 1]).val \in unique_filter.set
          THEN unique_filter' = unique_filter
          ELSE /\ unique_filter'.set =
                    (unique_filter.set \ {Head(unique_filter.queue)})
                      \cup {DerivedKey(stdin[pos + 1]).val}
               /\ unique_filter'.queue =
                    Append(Tail(unique_filter.queue), DerivedKey(stdin[pos + 1]).val)]_vars

\* The FxHashSet cache after the keys of the first n decisions.
RECURSIVE UnboundedAfter(_)
UnboundedAfter(n) ==
  IF n = 0 THEN FxHashSetNew
  ELSE IF decisions[n].key.some
       THEN FxHashSetInsert(UnboundedAfter(n - 1), decisions[n].key.val).cache
       ELSE UnboundedAfter(n - 1)

\* C14: on keys with at most C distinct values the cache of capacity C without
\* override answers every insert as the unbounded cache does and holds the same
\* keys after each of them.
C14_CapAsUnbounded ==
  (unique_filter.kind = "UniqueWithCap"
     /\ Cardinality(KeysBefore(pos + 1)) <= unique_filter.cap) =>
    /\ \A i \in 1..pos :
         decisions[i].key.some =>
           decisions[i].ret =
             FxHashSetInsert(UnboundedAfter(i - 1), decisions[i].key.val).ret
    /\ unique_filter.set = UnboundedAfter(pos).set

C14_Witness ==
  /\ unique_filter.kind = "UniqueWithCap"
  /\ pos = 3
  /\ Cardinality(KeysBefore(pos + 1)) = unique_filter.cap
  /\ unique_filter.cap = 2
  /\ decisions[2].ret = "false"
  /\ decisions[3].ret = "true"

\* The bytes of the explicit groups 1..g of a match that took part in it.
RECURSIVE GroupBytes(_, _)
GroupBytes(groups, g) ==
  IF g = 0 THEN <<>>
  ELSE GroupBytes(groups, g - 1)
       \o (IF groups[g + 1].some THEN groups[g + 1].val ELSE <<>>)

\* C15: in include mode a line the pattern matches has a key: the whole match
\* when the pattern has no explicit group, else the bytes of the explicit groups
\* that took part, in group order; the key, empty or not, goes to the cache.
C15_IncludeKey ==
  filter.kind = "Include" =>
    \A i \in 1..pos :
      LET m == FindAt(filter.re, stdin[i], 1)
      IN m.ok =>
           /\ decisions[i].key.some
           /\ decisions[i].key.val =
                (IF filter.re.ngroups = 0
                 THEN SubSeq(stdin[i], m.start, m.end - 1)
                 ELSE GroupBytes(Captures(filter.re, stdin[i]).val, filter.re.ngroups))
           /\ (i = pos /\ result.kind # "panic") =>
                decisions[i].key.val \in unique_filter.set

C15_Witness ==
  /\ filter.kind = "Include"
  /\ filter.re.ngroups >= 1
  /\ pos >= 2
  /\ decisions[1].key.some /\ decisions[1].key.val # <<>>
  /\ decisions[1].key.val # stdin[1]
  /\ decisions[2].key = Some(<<>>)
  /\ decisions[2].ret = "true"
  /\ <<>> \in unique_filter.set

\* C16: with the unbounded cache and with override, a run whose filter was built
\* does not abort and ends at the end of the input, with one decision made for
\* each input line in order.
C16_RunsToEnd ==
  (unique_filter.kind \in {"FxHashSet", "UniqueWithOverride"}
     /\ result.kind # "InvalidRegex") =>
    /\ result.kind # "panic"
    /\ Len(decisions) = pos
    /\ pc = "exit" => (result.kind = "Ok" /\ pos = Len(stdin))

\* The next line has a key that the cache holds.
HitNext ==
  /\ pc = "loop"
  /\ pos < Len(stdin)
  /\ DerivedKey(stdin[pos + 1]).some
  /\ DerivedKey(stdin[pos + 1]).val \in unique_filter.set

\* C17: under every policy the insert of a key that is held gives false and
\* leaves the set and the queue as they are (the key keeps its place in the
\* queue); the line is not written.
C17_HitChangesNothing ==
  [][HitNext =>
       /\ unique_filter' = unique_filter
       /\ decisions'[pos + 1].ret = "false"
       /\ stdout' = stdout
       /\ result' = result]_vars

C17_Witness ==
  /\ unique_filter.kind = "UniqueWithOverride"
  /\ pos = 3
  /\ decisions[1].ret = "true"
  /\ decisions[2].ret = "true"
  /\ decisions[3].ret = "false"
  /\ decisions[3].key = decisions[1].key
  /\ unique_filter.queue = <<decisions[1].key.val, decisions[2].key.val>>

\* --capacity was given a decimal numeral.
CapacityIsNumeral ==
  /\ matches.capacity.some
  /\ matches.capacity.val # <<>>
  /\ \A i \in 1..Len(matches.capacity.val) :
       matches.capacity.val[i] \in {"0", "1", "2", "3", "4", "5", "6", "7", "8", "9"}

\* The policy the command line asks for.
ExpectedKind ==
  IF CapacityIsNumeral
  THEN (IF matches.override THEN "UniqueWithOverride" ELSE "UniqueWithCap")
  ELSE "FxHashSet"

\* C18: the cache is chosen before the first line is read, from the command
\* line alone: a numeral with --override gives UniqueWithOverride of that
\* capacity, a numeral without it UniqueWithCap, and no capacity or one that is
\* no numeral the unbounded set, which never panics and never drops a key.
C18_PolicyFromConfig ==
  /\ pc = "start" => (pos = 0 /\ unique_filter.kind = "unset")
  /\ pc # "start" =>
       /\ unique_filter.kind = ExpectedKind
       /\ CapacityIsNumeral =>
            \E n \in 0..MaxCap :
              /\ matches.capacity.val = <<Digits[n + 1]>>
              /\ unique_filter.cap = n
       /\ unique_filter.kind = "FxHashSet" =>
            /\ result.kind # "panic"
            /\ unique_filter.set = KeysBefore(pos + 1)

C18_Witness ==
  /\ matches.capacity.some
  /\ ~CapacityIsNumeral
  /\ matches.override
  /\ unique_filter.kind = "FxHashSet"
  /\ result.kind = "Ok"
  /\ Cardinality(unique_filter.set) > MaxCap

====
